---- MODULE Spec2Model ----
(***************************************************************************)
(* Model of the evaluation metrics of gans-thesis:                         *)
(*   src/src/utils/metrics/fid.py   FID, _frechet_distance                 *)
(*   src/src/utils/metrics/is_.py   IS (torch implementation)              *)
(*   src/src/utils/metrics/is.py    IS (numpy / scipy implementation)      *)
(*                                                                         *)
(* Spec    : a metric instance and the calls of forward() made on it; the  *)
(*           batch loop, the stages after it and the errors raised.        *)
(*           Tensors are modelled by their shape and their provenance, an  *)
(*           embedding row by the identity of the image it was taken from. *)
(* SpecFD  : _frechet_distance on 2x2 integer Gaussians.                   *)
(* SpecIS  : the score formula of both IS implementations on predictions   *)
(*           that are multiples of 1/Unit.                                 *)
(***************************************************************************)
EXTENDS Integers, Sequences, FiniteSets, TLC

VARIABLES
    self,               \* the metric instance: cls, n_samples, batch_size, device
    calls,              \* number of forward() calls started on the instance
    args,               \* the arguments of the running call
    run,                \* the frame of the running call (locals of forward / get_embeddings)
    twin_target_index,  \* target_index of the twin call
    twin,               \* frame of a twin call: same inputs, other target_index
    fd,                 \* SpecFD: arguments and result of _frechet_distance
    isc                 \* SpecIS: predictions and the scores of is_.py and is.py

vars == <<self, calls, args, run, twin_target_index, twin, fd, isc>>

(***************************************************************************)
(* Bounds of the model                                                     *)
(***************************************************************************)
MaxNSamples == 3
MaxBatchSize == 2
MaxDataset == 3
MaxCalls == 2
MaxMean == 1
MaxCov == 2
MaxPredRows == 3
Unit == 3

\* number of image channels (the three means of the Inception normalisation)
Channels == 3

(***************************************************************************)
(* Python values                                                           *)
(***************************************************************************)
\* Optional[x]: None is the empty sequence, a value x is <<x>>
None == <<>>
Some(x) == <<x>>
IsNone(o) == Len(o) = 0

\* a torch.Tensor: number of dimensions, size of dim 0, size of dim 1, the
\* component of the dataset item it holds (src) and the dataloader batch it
\* was computed from (batch, 0 for none)
Tensor(rank, len, inner, src, batch) ==
    [tag |-> "tensor", rank |-> rank, len |-> len, inner |-> inner, src |-> src, batch |-> batch]

PyList(items) == [tag |-> "list", items |-> items]

\* the outcome of an expression: a value, or the exception it raises
Ok(v) == [ok |-> TRUE, val |-> v, exc |-> ""]
Raise(e) == [ok |-> FALSE, val |-> Tensor(0, 0, 0, None, 0), exc |-> e]

\* len(x)
PyLen(x) == IF x.tag = "list" THEN Len(x.items) ELSE x.len

\* x[i], i >= 0: an element of a list, or a slice of a tensor along dim 0
GetItem(x, i) ==
    IF x.tag = "list"
    THEN IF i < Len(x.items) THEN Ok(x.items[i + 1]) ELSE Raise("IndexError")
    ELSE IF i < x.len THEN Ok(Tensor(x.rank - 1, x.inner, 0, x.src, x.batch))
         ELSE Raise("IndexError")

\* f(*x): a list is unpacked into its elements, a tensor into its slices along dim 0
Unpack(x) ==
    IF x.tag = "list" THEN x.items
    ELSE [k \in 1..x.len |-> Tensor(x.rank - 1, x.inner, 0, x.src, x.batch)]

(***************************************************************************)
(* The external collaborators: dataloader, generator, Inception            *)
(***************************************************************************)
\* DataLoader(dataset, batch_size, shuffle=True): the batch after `yielded`
\* items; a dataset item is a tensor (tuple_len = 0) or a tuple of tensors.
\* Which items a batch holds (the shuffle) is not modelled, only how many.
Collate(a, rows, idx) ==
    IF a.tuple_len = 0 THEN Tensor(4, rows, Channels, None, idx)
    ELSE PyList([c \in 1..a.tuple_len |-> Tensor(4, rows, Channels, Some(c - 1), idx)])

BatchRows(s, a, r) ==
    IF a.dataset_len - r.yielded < s.batch_size THEN a.dataset_len - r.yielded ELSE s.batch_size

\* gen(*inputs): Python checks the number of arguments, then the network runs
\* on batched inputs only; a conditional generator returns a tuple whose last
\* element is the image batch, a noise generator returns the image batch
GenCall(gen, inputs, fault) ==
    IF Len(inputs) # gen.arity THEN Raise("TypeError")
    ELSE IF fault = "gen" THEN Raise("GeneratorError")
    ELSE IF gen.kind = "cond"
    THEN IF \A k \in 1..Len(inputs) : inputs[k].rank = 4 /\ inputs[k].len = inputs[1].len
         THEN Ok(PyList(<<Tensor(4, inputs[1].len, Channels, None, 0),
                          Tensor(4, inputs[1].len, Channels, None, inputs[1].batch)>>))
         ELSE Raise("RuntimeError")
    ELSE IF inputs[1].rank = 2
         THEN Ok(Tensor(4, inputs[1].len, Channels, None, inputs[1].batch))
         ELSE Raise("RuntimeError")

\* self.inception(x) / self.inception_sm(x): one output row per image of a
\* batch (N, C, H, W); the row is named by the set, the call, the dataloader
\* batch and the position of the image it was computed from
Inception(x, set, call, faulty) ==
    IF x.tag # "tensor" \/ x.rank # 4 THEN Raise("ValueError")
    ELSE IF faulty THEN Raise("InceptionError")
    ELSE Ok([k \in 1..x.len |-> <<set, call, x.batch, k>>])

(***************************************************************************)
(* The frame of a call                                                     *)
(***************************************************************************)
\* the accumulators kept on the instance instead of in the frame of the call
StaleFrame(prev) ==
    [prev EXCEPT !.pc = "embed", !.yielded = 0, !.batch_idx = 0, !.batch_log = <<>>,
                 !.cbs_log = <<>>, !.gen_log = <<>>, !.stats = None, !.result = None,
                 !.error = "", !.entered = [embed |-> 1, stats |-> 0, score |-> 0]]

\* the locals a call starts with (cur_samples = 0, empty lists); nothing of
\* the previous frame is carried over
NewFrame(prev) ==
    [pc |-> "embed", cur_samples |-> 0,
     real_embeddings_list |-> <<>>, fake_embeddings_list |-> <<>>,
     fake_predictions_list |-> <<>>,
     yielded |-> 0, batch_idx |-> 0, batch_log |-> <<>>, cbs_log |-> <<>>, gen_log |-> <<>>,
     real_embeddings |-> <<>>, fake_embeddings |-> <<>>, fake_predictions |-> <<>>,
     stats |-> None, result |-> None, error |-> "",
     entered |-> [embed |-> 1, stats |-> 0, score |-> 0]]

\* an except clause around the loop body that goes on with the next batch
SkipBatch(r, exc) == [r EXCEPT !.error = exc]

\* an exception leaves the frame: there is no try / except in the metrics
Propagate(r, exc) == [r EXCEPT !.pc = "raised", !.error = exc]

\* torch.cat(list, dim=0): the rows of the batches in list order
RECURSIVE Concat(_)
Concat(list) == IF Len(list) = 0 THEN <<>> ELSE Head(list) \o Concat(Tail(list))

\* only the last batch is kept
TorchCatLast(list) == IF Len(list) = 0 THEN Raise("RuntimeError") ELSE Ok(list[Len(list)])

TorchCat(list) == IF Len(list) = 0 THEN Raise("RuntimeError") ELSE Ok(Concat(list))

(***************************************************************************)
(* Generating the fake images of a batch                                   *)
(***************************************************************************)
\* [real_samples[_i] for _i in condition_indices]
CondInputs(real_samples, idxs) == [k \in 1..Len(idxs) |-> GetItem(real_samples, idxs[k])]

Gathered(got) ==
    IF \E k \in DOMAIN got : ~got[k].ok THEN Raise("IndexError")
    ELSE Ok(PyList([k \in DOMAIN got |-> got[k].val]))

\* gen_inputs: the conditions, or torch.randn(cur_batch_size, z_dim)
GenInputs(real_samples, cur_batch_size, a) ==
    IF ~IsNone(a.condition_indices)
    THEN Gathered(CondInputs(real_samples, a.condition_indices[1]))
    ELSE IF IsNone(a.z_dim) THEN Raise("TypeError")
         ELSE Ok(Tensor(2, cur_batch_size, a.z_dim[1], None, 0))

\* fake_output[0] instead of fake_output[-1]
FirstOutput(out) == IF out.tag = "list" THEN out.items[1] ELSE out

\* fake_output[-1] when the generator returns a tuple or a list
LastOutput(out) == IF out.tag = "list" THEN out.items[Len(out.items)] ELSE out

Called(inputs, res) ==
    [out |-> IF res.ok THEN Ok(LastOutput(res.val)) ELSE res, called |-> Some(inputs)]

\* gen(*gen_inputs) and the choice of its last output; in is.py on a cuda
\* device the generator is called inside `with torch.cuda.amp.autocast:`, a
\* class used as a context manager, which raises before the call
\* (AttributeError, TypeError from Python 3.11)
FakeOutput(s, a, gen_inputs, fault) ==
    IF s.cls = "IS" /\ s.device = "cuda"
    THEN [out |-> Raise("AttributeError"), called |-> None]
    ELSE Called(Unpack(gen_inputs), GenCall(a.gen, Unpack(gen_inputs), fault))

\* the arguments of a generator call are recorded in the frame's gen_log
LogCall(r, called) == IF IsNone(called) THEN r ELSE [r EXCEPT !.gen_log = Append(@, called[1])]

Failed(r, exc) == [frame |-> Propagate(r, exc), rows |-> <<>>]

\* the Inception output on the fake images
AfterInception(r, emb) == IF ~emb.ok THEN Failed(r, emb.exc) ELSE [frame |-> r, rows |-> emb.val]

AfterGen(r, out, call, fault) ==
    IF ~out.ok THEN Failed(r, out.exc)
    ELSE AfterInception(r, Inception(out.val, "fake", call, fault = "inception_fake"))

AfterInputs(r, fo, call, fault) == AfterGen(LogCall(r, fo.called), fo.out, call, fault)

FakeFrom(r, s, a, gi, call, fault) ==
    IF ~gi.ok THEN Failed(r, gi.exc)
    ELSE AfterInputs(r, FakeOutput(s, a, gi.val, fault), call, fault)

\* the part of a loop body shared by FID.get_embeddings and both IS.forward:
\* from the generator inputs to the Inception output on the fake images
FakeRows(r, s, a, real_samples, cur_batch_size, call, fault) ==
    FakeFrom(r, s, a, GenInputs(real_samples, cur_batch_size, a), call, fault)

(***************************************************************************)
(* One iteration of the batch loop                                         *)
(***************************************************************************)
\* the dataloader hands out its next batch
Fetch(r, rows) ==
    [r EXCEPT !.yielded = @ + rows, !.batch_idx = @ + 1, !.batch_log = Append(@, rows)]

\* real_samples[target_index] if target_index is not None else real_samples
TargetOutput(real_samples, a) ==
    IF IsNone(a.target_index) THEN Ok(real_samples)
    ELSE GetItem(real_samples, a.target_index[1])

\* fake_embeddings_list.append(...); cur_samples += cur_batch_size
FIDAppend(fake, cur_batch_size) ==
    IF fake.frame.pc = "raised" THEN fake.frame
    ELSE [fake.frame EXCEPT !.fake_embeddings_list = Append(@, fake.rows),
                            !.cur_samples = @ + cur_batch_size]

\* real_embeddings_list.append(...); cur_batch_size = len(target_output)
FIDFake(r0, real_samples, cur_batch_size, real, s, a, call, fault) ==
    IF ~real.ok THEN Propagate(r0, real.exc)
    ELSE FIDAppend(FakeRows([r0 EXCEPT !.real_embeddings_list = Append(@, real.val),
                                       !.cbs_log = Append(@, cur_batch_size)],
                            s, a, real_samples, cur_batch_size, call, fault),
                   cur_batch_size)

FIDReal(r0, real_samples, target_output, s, a, call, fault) ==
    IF ~target_output.ok THEN Propagate(r0, target_output.exc)
    ELSE IF target_output.val.tag # "tensor" THEN Propagate(r0, "AttributeError")
    ELSE FIDFake(r0, real_samples, PyLen(target_output.val),
                 Inception(target_output.val, "real", call, fault = "inception_real"),
                 s, a, call, fault)

\* the body of the loop of FID.get_embeddings on the batch real_samples
FIDBody(r0, real_samples, s, a, call, fault) ==
    FIDReal(r0, real_samples, TargetOutput(real_samples, a), s, a, call, fault)

\* cur_batch_size taken from the target, as FID.get_embeddings does
ISBatchSizeByTarget(real_samples, a) ==
    IF IsNone(a.target_index) THEN Ok(PyLen(real_samples))
    ELSE IF GetItem(real_samples, a.target_index[1]).ok
    THEN Ok(PyLen(GetItem(real_samples, a.target_index[1]).val))
    ELSE GetItem(real_samples, a.target_index[1])

\* cur_batch_size of IS.forward: target_index is not read
ISBatchSize(real_samples, a) ==
    IF IsNone(a.condition_indices) THEN Ok(PyLen(real_samples))
    ELSE IF GetItem(real_samples, 0).ok THEN Ok(PyLen(GetItem(real_samples, 0).val))
    ELSE GetItem(real_samples, 0)

\* fake_predictions_list.append(...); cur_samples += cur_batch_size
ISAppend(fake, cur_batch_size) ==
    IF fake.frame.pc = "raised" THEN fake.frame
    ELSE [fake.frame EXCEPT !.fake_predictions_list = Append(@, fake.rows),
                            !.cur_samples = @ + cur_batch_size]

ISFake(r0, real_samples, cbs, s, a, call, fault) ==
    IF ~cbs.ok THEN Propagate(r0, cbs.exc)
    ELSE ISAppend(FakeRows([r0 EXCEPT !.cbs_log = Append(@, cbs.val)],
                           s, a, real_samples, cbs.val, call, fault),
                  cbs.val)

\* the body of the loop of IS.forward (is_.py and is.py) on the batch real_samples
ISBody(r0, real_samples, s, a, call, fault) ==
    ISFake(r0, real_samples, ISBatchSize(real_samples, a), s, a, call, fault)

Body(r0, real_samples, s, a, call, fault) ==
    IF s.cls = "FID" THEN FIDBody(r0, real_samples, s, a, call, fault)
    ELSE ISBody(r0, real_samples, s, a, call, fault)

\* for real_samples in dataloader: if cur_samples >= n_samples: break; <body>
LoopStep(r, s, a, call, fault) ==
    IF r.yielded >= a.dataset_len THEN [r EXCEPT !.pc = "cat"]
    ELSE IF r.cur_samples >= s.n_samples THEN [Fetch(r, BatchRows(s, a, r)) EXCEPT !.pc = "cat"]
    ELSE Body(Fetch(r, BatchRows(s, a, r)),
              Collate(a, BatchRows(s, a, r), r.batch_idx + 1), s, a, call, fault)

(***************************************************************************)
(* After the loop                                                          *)
(***************************************************************************)
\* torch.mean(x, dim=0) and cov(x) of the rows x, kept symbolic
Mean(x) == [op |-> "mean", of |-> x]
Cov(x) == [op |-> "cov", of |-> x]

\* FID.get_embeddings returns the two concatenations
FIDCat(r, real, fake) ==
    IF ~real.ok THEN Propagate(r, real.exc)
    ELSE IF ~fake.ok THEN Propagate(r, fake.exc)
    ELSE [r EXCEPT !.pc = "stats", !.real_embeddings = real.val,
                   !.fake_embeddings = fake.val, !.entered.stats = @ + 1]

\* IS.forward concatenates its predictions
ISCat(r, fake) ==
    IF ~fake.ok THEN Propagate(r, fake.exc)
    ELSE [r EXCEPT !.pc = "score", !.fake_predictions = fake.val, !.entered.score = @ + 1]

CatStep(r, s) ==
    IF s.cls = "FID"
    THEN FIDCat(r, TorchCat(r.real_embeddings_list), TorchCat(r.fake_embeddings_list))
    ELSE ISCat(r, TorchCat(r.fake_predictions_list))

\* FID.forward: sample means and covariance matrices of both sets
StatsStep(r, fault) ==
    IF fault = "stats" THEN Propagate(r, "StatsError")
    ELSE [r EXCEPT !.pc = "score", !.entered.score = @ + 1,
                   !.stats = Some([real_embeddings_mean |-> Mean(r.real_embeddings),
                                   fake_embeddings_mean |-> Mean(r.fake_embeddings),
                                   real_embeddings_cov |-> Cov(r.real_embeddings),
                                   fake_embeddings_cov |-> Cov(r.fake_embeddings)])]

\* the scalar returned: _frechet_distance of the statistics, or
\* exp(mean(kls)) of the predictions and their mean p_y
ScoreStep(r, s, fault) ==
    IF fault = "stats" THEN Propagate(r, "StatsError")
    ELSE IF s.cls = "FID"
    THEN [r EXCEPT !.pc = "done",
                   !.result = Some([metric |-> "FID",
                                    x_mean |-> r.stats[1].real_embeddings_mean,
                                    y_mean |-> r.stats[1].fake_embeddings_mean,
                                    x_cov |-> r.stats[1].real_embeddings_cov,
                                    y_cov |-> r.stats[1].fake_embeddings_cov])]
    ELSE [r EXCEPT !.pc = "done",
                   !.result = Some([metric |-> "IS",
                                    p_y |-> Mean(r.fake_predictions),
                                    kls |-> r.fake_predictions])]

\* the next step of a call, from where its frame stands
Step(r, s, a, call, fault) ==
    CASE r.pc = "embed" -> LoopStep(r, s, a, call, fault)
      [] r.pc = "cat" -> CatStep(r, s)
      [] r.pc = "stats" -> StatsStep(r, fault)
      [] r.pc = "score" -> ScoreStep(r, s, fault)
      [] OTHER -> r

(***************************************************************************)
(* Inputs                                                                  *)
(***************************************************************************)
Classes == {"FID", "IS_", "IS"}
Devices == {"cpu", "cuda"}
TupleLens == {0, 2}
TargetIndexValues == {None, Some(0), Some(1)}
ConditionValues == {None, Some(<<1, 0>>)}
ZDimValues == {None, Some(2)}
Generators == {[kind |-> "noise", arity |-> 1], [kind |-> "cond", arity |-> 2]}
LoopFaults == {"none", "gen", "inception_real", "inception_fake"}
StatsFaults == {"none", "stats"}

Instances ==
    [cls : Classes, n_samples : 1..MaxNSamples, batch_size : 1..MaxBatchSize, device : Devices]

CallArgs ==
    [dataset_len : 0..MaxDataset, tuple_len : TupleLens, target_index : TargetIndexValues,
     condition_indices : ConditionValues, z_dim : ZDimValues, gen : Generators]

NoArgs ==
    [dataset_len |-> 0, tuple_len |-> 0, target_index |-> None,
     condition_indices |-> None, z_dim |-> None, gen |-> [kind |-> "noise", arity |-> 1]]

\* before the first call there is no frame: no locals hold anything
IdleFrame ==
    [pc |-> "idle", cur_samples |-> 0,
     real_embeddings_list |-> <<>>, fake_embeddings_list |-> <<>>,
     fake_predictions_list |-> <<>>,
     yielded |-> 0, batch_idx |-> 0, batch_log |-> <<>>, cbs_log |-> <<>>, gen_log |-> <<>>,
     real_embeddings |-> <<>>, fake_embeddings |-> <<>>, fake_predictions |-> <<>>,
     stats |-> None, result |-> None, error |-> "",
     entered |-> [embed |-> 0, stats |-> 0, score |-> 0]]

FDIdle == [pc |-> "off"]
ISIdle == [pc |-> "off"]

\* the arguments of the twin call: those of the call, but for target_index
TwinArgs == [args EXCEPT !.target_index = twin_target_index]

(***************************************************************************)
(* Spec: the calls made on a metric instance                               *)
(***************************************************************************)
Init ==
    /\ self \in Instances
    /\ calls = 0
    /\ args = NoArgs
    /\ run = IdleFrame
    /\ twin_target_index = None
    /\ twin = IdleFrame
    /\ fd = FDIdle
    /\ isc = ISIdle

\* forward(dataset, gen, ..., target_index, condition_indices, z_dim) is called;
\* z_dim is given exactly when condition_indices is not
Call ==
    /\ run.pc \in {"idle", "done", "raised"}
    /\ calls < MaxCalls
    /\ \E a \in CallArgs :
         /\ (IsNone(a.z_dim) <=> ~IsNone(a.condition_indices))
         /\ args' = a
         /\ twin_target_index' \in
              IF self.cls = "FID" THEN {a.target_index}
              ELSE TargetIndexValues \ {a.target_index}
    /\ calls' = calls + 1
    /\ run' = NewFrame(run)
    /\ twin' = NewFrame(twin)
    /\ UNCHANGED <<self, fd, isc>>

\* the frames after one step of the call and of its twin
Moved(next_run, next_twin, to) ==
    /\ next_run.pc = to
    /\ run' = next_run
    /\ twin' = next_twin
    /\ UNCHANGED <<self, calls, args, twin_target_index, fd, isc>>

Advance(fault, to) ==
    Moved(Step(run, self, args, calls, fault), Step(twin, self, TwinArgs, calls, fault), to)

\* one batch is processed
Iterate == run.pc = "embed" /\ \E fault \in LoopFaults : Advance(fault, "embed")

\* the dataloader is exhausted, or cur_samples >= n_samples
LoopExit == run.pc = "embed" /\ Advance("none", "cat")

\* an error raised while a batch is processed leaves the call
RaiseInLoop == run.pc = "embed" /\ \E fault \in LoopFaults : Advance(fault, "raised")

\* torch.cat of the collected batches
Cat == run.pc = "cat" /\ \E to \in {"stats", "score"} : Advance("none", to)

\* torch.cat of an empty list raises
RaiseInCat == run.pc = "cat" /\ Advance("none", "raised")

\* means and covariances of FID.forward
ComputeStats == run.pc = "stats" /\ Advance("none", "score")

\* the Frechet distance or the Inception score is returned
Score == run.pc = "score" /\ Advance("none", "done")

\* an error raised by the numerical library in the final statistics
RaiseInStats == run.pc \in {"stats", "score"} /\ Advance("stats", "raised")

Next ==
    \/ Call
    \/ Iterate
    \/ LoopExit
    \/ RaiseInLoop
    \/ Cat
    \/ RaiseInCat
    \/ ComputeStats
    \/ Score
    \/ RaiseInStats

Spec == Init /\ [][Next]_vars

(***************************************************************************)
(* SpecFD: _frechet_distance on Gaussians of two variables with integer    *)
(* means and covariances, in exact arithmetic                              *)
(***************************************************************************)
Mat2(a, b, c, d) == <<<<a, b>>, <<c, d>>>>
VecSub(x, y) == <<x[1] - y[1], x[2] - y[2]>>
MatAdd(A, B) == Mat2(A[1][1] + B[1][1], A[1][2] + B[1][2], A[2][1] + B[2][1], A[2][2] + B[2][2])
MatSub(A, B) == Mat2(A[1][1] - B[1][1], A[1][2] - B[1][2], A[2][1] - B[2][1], A[2][2] - B[2][2])
MatScale(k, A) == Mat2(k * A[1][1], k * A[1][2], k * A[2][1], k * A[2][2])
MatMul(A, B) ==
    Mat2(A[1][1] * B[1][1] + A[1][2] * B[2][1], A[1][1] * B[1][2] + A[1][2] * B[2][2],
         A[2][1] * B[1][1] + A[2][2] * B[2][1], A[2][1] * B[1][2] + A[2][2] * B[2][2])
Trace(A) == A[1][1] + A[2][2]
Det(A) == A[1][1] * A[2][2] - A[1][2] * A[2][1]

\* torch.norm(v) ** 2
NormSquared(v) == v[1] * v[1] + v[2] * v[2]

\* the integer square root
ISqrt(n) == CHOOSE r \in 0..n : r * r <= n /\ (r + 1) * (r + 1) > n

\* the principal square root of a 2x2 matrix M with eigenvalues >= 0:
\* (M + s I) / t, with s = sqrt(det M) and t = sqrt(tr M + 2 s)
SqrtOver(M, s, t) ==
    IF t = 0 THEN Mat2(0, 0, 0, 0)
    ELSE Mat2((M[1][1] + s) \div t, M[1][2] \div t, M[2][1] \div t, (M[2][2] + s) \div t)

SqrtWith(M, s) == SqrtOver(M, s, ISqrt(Trace(M) + 2 * s))

matrix_sqrt(M) == SqrtWith(M, ISqrt(Det(M)))

\* S is the principal square root of M
IsPrincipalSqrt(S, M) == MatMul(S, S) = M /\ Trace(S) >= 0 /\ Det(S) >= 0

\* the forgotten factor 2 of the cross term
frechet_distance_unscaled(x_mean, y_mean, x_cov, y_cov) ==
    NormSquared(VecSub(x_mean, y_mean))
        + Trace(MatSub(MatAdd(x_cov, y_cov), matrix_sqrt(MatMul(x_cov, y_cov))))

frechet_distance(x_mean, y_mean, x_cov, y_cov) ==
    NormSquared(VecSub(x_mean, y_mean))
        + Trace(MatSub(MatAdd(x_cov, y_cov), MatScale(2, matrix_sqrt(MatMul(x_cov, y_cov)))))

Means == {<<a, b>> : a \in 0..MaxMean, b \in 0..MaxMean}

\* the symmetric positive-semi-definite matrices with entries up to MaxCov
Covs ==
    {M \in {Mat2(a, b, b, d) : a \in 0..MaxCov, b \in (0 - MaxCov)..MaxCov, d \in 0..MaxCov} :
        Det(M) >= 0}

\* the pairs of covariances whose product has an integer principal square root
Exact(x_cov, y_cov) ==
    /\ IsPrincipalSqrt(matrix_sqrt(MatMul(x_cov, y_cov)), MatMul(x_cov, y_cov))
    /\ IsPrincipalSqrt(matrix_sqrt(MatMul(y_cov, x_cov)), MatMul(y_cov, x_cov))

InitFD ==
    /\ self = [cls |-> "FID", n_samples |-> 1, batch_size |-> 1, device |-> "cpu"]
    /\ calls = 0
    /\ args = NoArgs
    /\ run = IdleFrame
    /\ twin_target_index = None
    /\ twin = IdleFrame
    /\ isc = ISIdle
    /\ fd \in [pc : {"args"}, x_mean : Means, y_mean : Means, x_cov : Covs, y_cov : Covs,
               out : {0}, out_swapped : {0}]
    /\ Exact(fd.x_cov, fd.y_cov)

\* _frechet_distance(x_mean, y_mean, x_cov, y_cov)
FDCall ==
    /\ fd.pc = "args"
    /\ fd' = [fd EXCEPT !.pc = "returned",
                        !.out = frechet_distance(fd.x_mean, fd.y_mean, fd.x_cov, fd.y_cov)]
    /\ UNCHANGED <<self, calls, args, run, twin_target_index, twin, isc>>

\* _frechet_distance(y_mean, x_mean, y_cov, x_cov): the two Gaussians exchanged
FDCallSwapped ==
    /\ fd.pc = "returned"
    /\ fd' = [fd EXCEPT !.pc = "both",
                        !.out_swapped = frechet_distance(fd.y_mean, fd.x_mean, fd.y_cov, fd.x_cov)]
    /\ UNCHANGED <<self, calls, args, run, twin_target_index, twin, isc>>

NextFD ==
    \/ FDCall
    \/ FDCallSwapped

SpecFD == InitFD /\ [][NextFD]_vars

(***************************************************************************)
(* SpecIS: the score of IS.forward on predictions over two classes that    *)
(* are multiples of 1/Unit: a row <<a, b>> holds the probabilities a/Unit  *)
(* and b/Unit.  A Kullback-Leibler divergence kl is held as the reduced    *)
(* fraction exp(Unit * kl), the score as score ^ (Unit * rows); nan is     *)
(* the floating-point NaN.                                                 *)
(***************************************************************************)
RECURSIVE GCD(_, _)
GCD(a, b) == IF b = 0 THEN a ELSE GCD(b, a % b)

RECURSIVE Pow(_, _)
Pow(b, e) == IF e = 0 THEN 1 ELSE b * Pow(b, e - 1)

NaN == [nan |-> TRUE, num |-> 0, den |-> 1]
One == [nan |-> FALSE, num |-> 1, den |-> 1]
Reduced(n, d, g) == [nan |-> FALSE, num |-> n \div g, den |-> d \div g]
Frac(n, d) == Reduced(n, d, GCD(n, d))
Mul(v, w) == IF v.nan \/ w.nan THEN NaN ELSE Frac(v.num * w.num, v.den * w.den)

\* torch.mean(fake_predictions, dim=0) / np.mean(fake_predictions, axis=0):
\* p_y[y] is ColumnSums[y] / (Unit * rows)
RECURSIVE ColumnSums(_)
ColumnSums(preds) ==
    IF Len(preds) = 0 THEN <<0, 0>>
    ELSE <<Head(preds)[1] + ColumnSums(Tail(preds))[1],
           Head(preds)[2] + ColumnSums(Tail(preds))[2]>>

\* exp(Unit * p * log(p / p_y)) for p = a / Unit and p_y = s / (Unit * n)
Ratio(a, s, n) == Frac(Pow(n * a, a), Pow(s, a))

\* is_.py: p_y_given_xi * (p_y_given_xi / p_y).log(); 0 * log(0) is NaN
TorchTerm(a, s, n) == IF a = 0 THEN NaN ELSE Ratio(a, s, n)

\* is.py: scipy's entropy(pk, qk) sums rel_entr(pk, qk), which is 0 for pk = 0
ScipyTerm(a, s, n) == IF a = 0 THEN One ELSE Ratio(a, s, n)

\* the sum over the classes
TorchKL(row, s, n) == Mul(TorchTerm(row[1], s[1], n), TorchTerm(row[2], s[2], n))
ScipyKL(row, s, n) == Mul(ScipyTerm(row[1], s[1], n), ScipyTerm(row[2], s[2], n))

\* torch.exp(torch.mean(torch.stack(kls), dim=0))
RECURSIVE TorchExpMean(_, _, _)
TorchExpMean(preds, s, n) ==
    IF Len(preds) = 0 THEN One
    ELSE Mul(TorchKL(Head(preds), s, n), TorchExpMean(Tail(preds), s, n))

\* np.exp(np.mean(kls))
RECURSIVE ScipyExpMean(_, _, _)
ScipyExpMean(preds, s, n) ==
    IF Len(preds) = 0 THEN One
    ELSE Mul(ScipyKL(Head(preds), s, n), ScipyExpMean(Tail(preds), s, n))

\* the score of is_.py and of is.py
TorchScore(preds) == TorchExpMean(preds, ColumnSums(preds), Len(preds))
ScipyScore(preds) == ScipyExpMean(preds, ColumnSums(preds), Len(preds))

PredRows == {<<a, Unit - a>> : a \in 0..Unit}
Predictions == UNION {[1..n -> PredRows] : n \in 1..MaxPredRows}

InitIS ==
    /\ self = [cls |-> "IS_", n_samples |-> 1, batch_size |-> 1, device |-> "cpu"]
    /\ calls = 0
    /\ args = NoArgs
    /\ run = IdleFrame
    /\ twin_target_index = None
    /\ twin = IdleFrame
    /\ fd = FDIdle
    /\ isc \in [pc : {"predictions"}, fake_predictions : Predictions,
                torch : {One}, scipy : {One}]

\* is_.py: p_y, kls and the score
ISTorch ==
    /\ isc.pc = "predictions"
    /\ isc' = [isc EXCEPT !.pc = "torch", !.torch = TorchScore(isc.fake_predictions)]
    /\ UNCHANGED <<self, calls, args, run, twin_target_index, twin, fd>>

\* is.py: p_y, kls and the score, on the same predictions
ISScipy ==
    /\ isc.pc = "torch"
    /\ isc' = [isc EXCEPT !.pc = "both", !.scipy = ScipyScore(isc.fake_predictions)]
    /\ UNCHANGED <<self, calls, args, run, twin_target_index, twin, fd>>

NextIS ==
    \/ ISTorch
    \/ ISScipy

SpecIS == InitIS /\ [][NextIS]_vars

(***************************************************************************)
(* Properties of Spec                                                      *)
(***************************************************************************)
Completed == {"stats", "score", "done"}
IsFID == self.cls = "FID"
IsIS == self.cls \in {"IS_", "IS"}

\* C1: when a call returns its score, the number of collected rows (the final
\* cur_samples) equals n_samples; stated for the datasets that hold at least
\* n_samples images, where the dataloader can supply that many
C1_ExactlyNSamples ==
    (run.pc = "done" /\ args.dataset_len >= self.n_samples) => run.cur_samples = self.n_samples

\* the rows of a batch all come from dataloader batch i of this call
FromBatch(rows, i) == \A k \in 1..Len(rows) : rows[k][2] = calls /\ rows[k][3] = i

\* C2: in FID the real and the fake list hold the same number of batches after
\* every iteration, the i-th fake batch comes from the same dataloader batch as
\* the i-th real batch and has as many rows, and the two tensors returned by
\* get_embeddings have the same number of rows
C2_SameBatches ==
    (IsFID /\ run.pc \in {"embed", "cat"} \cup Completed) =>
        /\ Len(run.real_embeddings_list) = Len(run.fake_embeddings_list)
        /\ \A i \in 1..Len(run.real_embeddings_list) :
              /\ FromBatch(run.real_embeddings_list[i], i)
              /\ i <= Len(run.fake_embeddings_list)
              /\ FromBatch(run.fake_embeddings_list[i], i)
              /\ Len(run.real_embeddings_list[i]) = Len(run.fake_embeddings_list[i])
        /\ (run.pc \in Completed => Len(run.real_embeddings) = Len(run.fake_embeddings))

C2_Witness ==
    /\ IsFID
    /\ run.pc = "done"
    /\ Len(run.real_embeddings_list) >= 2
    /\ Len(run.fake_embeddings) >= 2

\* the position of a frame in the pipeline
StageRank(pc) ==
    CASE pc = "idle" -> 0
      [] pc = "embed" -> 1
      [] pc = "cat" -> 2
      [] pc = "stats" -> 3
      [] pc = "score" -> 4
      [] pc = "done" -> 5
      [] OTHER -> 6

\* rows are in processing order: by dataloader batch, then by position in it
InOrder(rows) ==
    \A i, j \in 1..Len(rows) :
        i < j => (rows[i][3] < rows[j][3] \/ (rows[i][3] = rows[j][3] /\ rows[i][4] < rows[j][4]))

C3_Stages ==
    IsFID =>
        /\ run.entered.embed <= 1 /\ run.entered.stats <= 1 /\ run.entered.score <= 1
        /\ run.entered.score <= run.entered.stats /\ run.entered.stats <= run.entered.embed
        /\ (run.pc = "done" => run.entered = [embed |-> 1, stats |-> 1, score |-> 1])
        /\ (run.entered.stats = 1 <=> run.pc \in Completed \/ (run.pc = "raised" /\ run.error = "StatsError"))
        /\ (run.entered.stats = 1 =>
              /\ run.real_embeddings = Concat(run.real_embeddings_list)
              /\ run.fake_embeddings = Concat(run.fake_embeddings_list)
              /\ Len(run.real_embeddings_list) = Len(run.cbs_log)
              /\ InOrder(run.real_embeddings) /\ InOrder(run.fake_embeddings))
        /\ (~IsNone(run.stats) =>
              /\ run.entered.stats = 1
              /\ run.stats[1].real_embeddings_mean = Mean(run.real_embeddings)
              /\ run.stats[1].fake_embeddings_mean = Mean(run.fake_embeddings)
              /\ run.stats[1].real_embeddings_cov = Cov(run.real_embeddings)
              /\ run.stats[1].fake_embeddings_cov = Cov(run.fake_embeddings))
        /\ (~IsNone(run.result) =>
              /\ ~IsNone(run.stats)
              /\ run.result[1].x_mean = run.stats[1].real_embeddings_mean
              /\ run.result[1].y_mean = run.stats[1].fake_embeddings_mean
              /\ run.result[1].x_cov = run.stats[1].real_embeddings_cov
              /\ run.result[1].y_cov = run.stats[1].fake_embeddings_cov)

C3_Forward ==
    (IsFID /\ calls' = calls) =>
        /\ StageRank(run'.pc) >= StageRank(run.pc)
        /\ (StageRank(run.pc) >= 2 =>
              /\ run'.real_embeddings_list = run.real_embeddings_list
              /\ run'.fake_embeddings_list = run.fake_embeddings_list)
        /\ (StageRank(run.pc) >= 4 => run'.stats = run.stats)

\* C3: FID.forward is a linear pipeline: a call never steps back to an earlier
\* stage, each stage is entered at most once and exactly once in a call that
\* returns, all batches are collected before the statistics are taken, the
\* statistics before the distance, and the statistics are those of the
\* concatenation of the processed batches in processing order
C3_LinearPipeline == []C3_Stages /\ [][C3_Forward]_vars

C3_Witness ==
    /\ IsFID
    /\ run.pc = "done"
    /\ Len(run.real_embeddings_list) >= 2
    /\ Len(run.real_embeddings) >= 3

\* C6: an IS call and its twin, which differ in target_index only, process the
\* same batches, count the same samples per batch and return the same score
C6_TargetIndexUnused == IsIS => twin = run

C6_Witness ==
    /\ self.cls = "IS_"
    /\ run.pc = "done"
    /\ twin_target_index # args.target_index
    /\ Len(run.fake_predictions_list) >= 2
    /\ ~IsNone(twin.result)

\* the arguments condition_indices selects from batch i, in their order
ExpectedConditions(i) ==
    [k \in 1..Len(args.condition_indices[1]) |->
        GetItem(Collate(args, run.batch_log[i], i), args.condition_indices[1][k]).val]

\* C7: without condition_indices the generator is called with one noise tensor
\* of shape (cur_batch_size, z_dim), cur_batch_size being the number of real
\* samples of the batch; with condition_indices it is called with one argument
\* per condition index, in the order of condition_indices
C7_GeneratorInputs ==
    \A i \in 1..Len(run.gen_log) :
        IF IsNone(args.condition_indices)
        THEN /\ Len(run.gen_log[i]) = 1
             /\ run.gen_log[i][1].rank = 2
             /\ run.gen_log[i][1].len = run.batch_log[i]
             /\ run.gen_log[i][1].inner = args.z_dim[1]
        ELSE run.gen_log[i] = ExpectedConditions(i)

\* the rows of a list of batches all belong to the running call
OwnRows(list) == \A i \in 1..Len(list) : \A k \in 1..Len(list[i]) : list[i][k][2] = calls

RECURSIVE Sum(_)
Sum(seq) == IF Len(seq) = 0 THEN 0 ELSE Head(seq) + Sum(Tail(seq))

C8_Fresh ==
    /\ OwnRows(run.real_embeddings_list)
    /\ OwnRows(run.fake_embeddings_list)
    /\ OwnRows(run.fake_predictions_list)
    /\ OwnRows(<<run.real_embeddings, run.fake_embeddings, run.fake_predictions>>)
    /\ (run.pc # "raised" => run.cur_samples = Sum(run.cbs_log))
    /\ run.cur_samples <= Sum(run.cbs_log)
    /\ Len(run.cbs_log) <= run.batch_idx
    /\ (run.pc \in {"embed", "cat"} => IsNone(run.stats) /\ IsNone(run.result))

C8_Frame ==
    /\ self' = self
    /\ (calls' # calls =>
          /\ run'.cur_samples = 0
          /\ run'.real_embeddings_list = <<>>
          /\ run'.fake_embeddings_list = <<>>
          /\ run'.fake_predictions_list = <<>>
          /\ IsNone(run'.result))

\* C8: no metric state outlives a call: the instance's n_samples, batch_size
\* and device never change, every call starts with cur_samples = 0 and empty
\* lists, and every row a call collects or returns was computed by that call
C8_NoStateOutlivesCall == []C8_Fresh /\ [][C8_Frame]_vars

C8_Witness ==
    /\ calls = 2
    /\ run.pc = "done"
    /\ run.cur_samples >= 2

C9_Raised ==
    /\ (run.error # "" <=> run.pc = "raised")
    /\ (run.pc = "raised" => IsNone(run.result))
    /\ (~IsNone(run.result) <=> run.pc = "done")

C9_NoRecovery ==
    (run.pc = "raised" /\ calls' = calls) => run' = run

\* C9: an error raised in a batch or in the final statistics leaves the call:
\* the frame stops where the error was raised, with that error, the call never
\* goes on to another batch and never returns a score
C9_ErrorsPropagate == []C9_Raised /\ [][C9_NoRecovery]_vars

C9_Witness ==
    /\ run.pc = "raised"
    /\ run.cur_samples >= 1
    /\ run.error = "GeneratorError"
    /\ IsNone(run.result)

(***************************************************************************)
(* Properties of SpecFD                                                    *)
(***************************************************************************)
\* the distance with the trace of the square root given by its eigenvalues:
\* T = sqrt(l1) + sqrt(l2), so T * T = tr(M) + 2 * sqrt(det(M))
IsFrechet(d, x_mean, y_mean, x_cov, y_cov, M) ==
    \E T \in 0..(Trace(x_cov) + Trace(y_cov)) :
        /\ ISqrt(Det(M)) * ISqrt(Det(M)) = Det(M)
        /\ T * T = Trace(M) + 2 * ISqrt(Det(M))
        /\ d = NormSquared(VecSub(x_mean, y_mean)) + Trace(x_cov) + Trace(y_cov) - 2 * T

\* C4: _frechet_distance returns |x_mean - y_mean|^2 + tr(x_cov + y_cov -
\* 2 sqrt(x_cov y_cov)); it is 0 for identical Gaussians and the same with the
\* two Gaussians exchanged
C4_FrechetDistance ==
    /\ (fd.pc \in {"returned", "both"} =>
          /\ IsFrechet(fd.out, fd.x_mean, fd.y_mean, fd.x_cov, fd.y_cov, MatMul(fd.x_cov, fd.y_cov))
          /\ ((fd.x_mean = fd.y_mean /\ fd.x_cov = fd.y_cov) => fd.out = 0)
          /\ fd.out >= 0)
    /\ (fd.pc = "both" => fd.out_swapped = fd.out)

C4_Witness ==
    /\ fd.pc = "both"
    /\ MatMul(fd.x_cov, fd.y_cov) # MatMul(fd.y_cov, fd.x_cov)
    /\ fd.x_mean # fd.y_mean
    /\ fd.out > NormSquared(VecSub(fd.x_mean, fd.y_mean))

(***************************************************************************)
(* Properties of SpecIS                                                    *)
(***************************************************************************)
\* C5: both implementations return the Inception Score of the predictions,
\* the same value, and that value is at least 1
C5_InceptionScore ==
    /\ (isc.pc \in {"torch", "both"} =>
          /\ ~isc.torch.nan
          /\ isc.torch.num >= isc.torch.den)
    /\ (isc.pc = "both" =>
          /\ ~isc.scipy.nan
          /\ isc.scipy.num >= isc.scipy.den
          /\ isc.torch = isc.scipy)

====
